---- MODULE Spec2Model ----
(***************************************************************************)
(* A model of the fitness-tracker API (src/main.py, src/models.py,         *)
(* src/schemas.py, src/database.py): the three tables, the bearer tokens   *)
(* in circulation, and one action per HTTP handler.  Every handler records *)
(* its request and its response in `last`, so that properties can speak    *)
(* about status codes and response bodies.                                 *)
(***************************************************************************)
EXTENDS Integers, Sequences, FiniteSets, TLC

VARIABLES
    users,      \* table users: set of rows
    plans,      \* table workout_plans: set of rows
    exercises,  \* table exercises: set of rows
    tokens,     \* bearer tokens issued so far (signed claims, stateless)
    now,        \* the database clock behind func.now()
    pending,    \* requests that ran their SELECTs and have not committed yet
    sessions,   \* the in-memory sessions dict of the web pages: token -> identity
    client,     \* a client working through the end-to-end sequence: its position
    last        \* the last request served and its response

vars == <<users, plans, exercises, tokens, now, pending, sessions, client, last>>

-----------------------------------------------------------------------------
(* Bounds of the model *)

MaxUsers == 3
MaxPlans == 2
MaxExercises == 1
MaxTokens == 2
MaxTime == 1
MaxPending == 2
MaxOrdered == 3
MaxSessions == 3

-----------------------------------------------------------------------------
(* Values *)

\* Python None / SQL NULL in a string column and in an integer column.
NULL == "NULL"
NONE == -1

USER == "user"
ADMIN == "admin"
UserRole == {USER, ADMIN}

Max(S) == CHOOSE x \in S : \A y \in S : y <= x

\* INTEGER PRIMARY KEY of SQLite without AUTOINCREMENT: the new rowid is one
\* more than the largest rowid in the table, so the id of a deleted last row
\* is given out again.
NextId(rows) == IF rows = {} THEN 1 ELSE Max({r.id : r \in rows}) + 1

\* Result.scalar_one_or_none(): no row, the row, or MultipleResultsFound.
MultipleResultsFound(rows) == Cardinality(rows) > 1

\* All orderings of a finite set of rows, as sequences.
Perms(S) ==
    {f \in [1..Cardinality(S) -> S] : \A i, j \in 1..Cardinality(S) : f[i] = f[j] => i = j}

\* .offset(skip).limit(limit) of a result sequence.
Page(seq, skip, limit) ==
    SubSeq(seq, skip + 1, IF skip + limit < Len(seq) THEN skip + limit ELSE Len(seq))

Range(seq) == {seq[i] : i \in 1..Len(seq)}

-----------------------------------------------------------------------------
(* auth.py *)

get_password_hash(password) == <<"hash", password>>

verify_password(password, hashed) == hashed = get_password_hash(password)

create_access_token(user) ==
    [sub |-> user.username, user_id |-> user.id, role |-> user.role]

\* verify_token accepts exactly the tokens the server signed; it reads no table.
verify_token(t) == t \in tokens

\* A credential the server never signed.
BadToken == [sub |-> "", user_id |-> NONE, role |-> ""]

Credentials == tokens \cup {BadToken}

-----------------------------------------------------------------------------
(* Responses *)

NoData == [set |-> {}]

Resp(op, t, id, status, detail, rows, data) ==
    [op |-> op, user_id |-> t.user_id, role |-> t.role, id |-> id,
     status |-> status, detail |-> detail, rows |-> rows, data |-> data,
     deleted |-> [plans |-> {}, exercises |-> {}]]

\* The response of a request whose commit deleted plan and exercise rows.
Deleting(resp, ps, es) == [resp EXCEPT !.deleted = [plans |-> ps, exercises |-> es]]

Anonymous == [sub |-> "", user_id |-> NONE, role |-> ""]

\* response_model=WorkoutPlanRead / List[WorkoutPlanRead]: is_public is a bool,
\* so a row whose is_public is NULL fails the response validation (500) after
\* the handler has run.
PlanResp(op, t, id, rows, data) ==
    IF \A i \in 1..Len(rows) : rows[i].is_public # NONE
    THEN Resp(op, t, id, 200, "", rows, data)
    ELSE Resp(op, t, id, 500, "ResponseValidationError", <<>>, data)

\* The detail texts of the HTTPExceptions, which the source words in Russian,
\* each named by what it says.
PlanNotFound == "plan not found"
ExerciseNotFound == "exercise not found"
UserNotFound == "user not found"
Forbidden == "forbidden"
Unauthorized == "unauthorized"
\* Exceptions no handler catches; each surfaces as a 500.
IntegrityError == "IntegrityError"
MultipleRows == "MultipleResultsFound"
StaleDataError == "StaleDataError"
ResponseValidationError == "ResponseValidationError"

-----------------------------------------------------------------------------
(* database.py and models.py: what the storage engine enforces at commit *)

\* create_engine("sqlite:///./fitness.db") with no PRAGMA foreign_keys=ON:
\* SQLite does not enforce the ForeignKey columns.
foreign_keys == FALSE

\* The users table without its unique indexes.
UsersNotNullOnly(rows) == \A u \in rows : u.email # NULL /\ u.username # NULL

\* users.email and users.username: unique=True, nullable=False.
UsersIntegrity(rows) ==
    /\ \A u \in rows : u.email # NULL /\ u.username # NULL
    /\ \A u, v \in rows : u.id # v.id => u.email # v.email /\ u.username # v.username

\* workout_plans.title: nullable=False; owner_id: ForeignKey("users.id").
PlanIntegrity(p) ==
    /\ p.title # NULL
    /\ foreign_keys => \E u \in users : u.id = p.owner_id

\* exercises.name: nullable=False; workout_plan_id: ForeignKey("workout_plans.id").
ExerciseIntegrity(e) ==
    /\ e.name # NULL
    /\ foreign_keys => \E p \in plans : p.id = e.workout_plan_id

\* relationship(..., cascade="all, delete-orphan"): deleting a parent through
\* the ORM deletes the children it loads by their foreign key.
ExercisesOfPlans(ps) == {e \in exercises : \E p \in ps : e.workout_plan_id = p.id}

\* A users row deleted without its relationship cascade.
NoPlansOfUser(u) == {}

PlansOfUser(u) == {p \in plans : p.owner_id = u.id}

-----------------------------------------------------------------------------
(* Request payloads (schemas.py).  An update payload carries every field,    *)
(* None where it was not supplied, and `set`, the names that were supplied.  *)

PlanFields == {"title", "description", "difficulty", "duration_weeks", "is_public"}

ExerciseFields == {"name", "description", "sets", "reps", "rest_seconds", "order"}

WorkoutPlanUpdate(Fs, Ts, Ds, Fs2, Ws, Ps) ==
    {[set |-> S,
      title |-> IF "title" \in S THEN t ELSE NULL,
      description |-> IF "description" \in S THEN d ELSE NULL,
      difficulty |-> IF "difficulty" \in S THEN f ELSE NULL,
      duration_weeks |-> IF "duration_weeks" \in S THEN w ELSE NONE,
      is_public |-> IF "is_public" \in S THEN p ELSE NONE] :
        S \in SUBSET Fs, t \in Ts, d \in Ds, f \in Fs2, w \in Ws, p \in Ps}

WorkoutPlanCreate(Ts, Ds, Fs2, Ws, Ps) ==
    {[title |-> t, description |-> d, difficulty |-> f, duration_weeks |-> w,
      is_public |-> p] : t \in Ts, d \in Ds, f \in Fs2, w \in Ws, p \in Ps}

ExerciseUpdate(Fs, Ns, Ds, Ss, Rs, Ws, Os) ==
    {[set |-> S,
      name |-> IF "name" \in S THEN n ELSE NULL,
      description |-> IF "description" \in S THEN d ELSE NULL,
      sets |-> IF "sets" \in S THEN s ELSE NONE,
      reps |-> IF "reps" \in S THEN r ELSE NULL,
      rest_seconds |-> IF "rest_seconds" \in S THEN w ELSE NONE,
      order |-> IF "order" \in S THEN o ELSE NONE] :
        S \in SUBSET Fs, n \in Ns, d \in Ds, s \in Ss, r \in Rs, w \in Ws, o \in Os}

ExerciseCreate(Ns, Ds, Ss, Rs, Ws, Os, Pids) ==
    {[name |-> n, description |-> d, sets |-> s, reps |-> r, rest_seconds |-> w,
      order |-> o, workout_plan_id |-> pid] :
        n \in Ns, d \in Ds, s \in Ss, r \in Rs, w \in Ws, o \in Os, pid \in Pids}

\* model_dump() without exclude_unset: every field of the schema is assigned.
EveryField(data, key, old) == data[key]

\* model_dump(exclude_unset=True) followed by setattr for each item.
Given(data, key, old) == IF key \in data.set THEN data[key] ELSE old

-----------------------------------------------------------------------------
(* Workout plans: /api/workout-plans *)

\* The lookup without its owner_id condition.
OwnedPlansAnyOwner(t, plan_id) == {p \in plans : p.id = plan_id}

\* select(WorkoutPlan).where(id == plan_id, owner_id == current_user.user_id)
OwnedPlans(t, plan_id) == {p \in plans : p.id = plan_id /\ p.owner_id = t.user_id}

\* order_by(desc(WorkoutPlan.created_at)); rows of equal time come in any order.
NewestFirst(S) ==
    {s \in Perms(S) : \A i, j \in 1..Len(s) : i < j => s[i].created_at >= s[j].created_at}

create_workout_plan(t, data) ==
    /\ verify_token(t)
    /\ Cardinality(plans) < MaxPlans
    /\ LET db_plan == [id |-> NextId(plans), title |-> data.title,
                       description |-> data.description, difficulty |-> data.difficulty,
                       duration_weeks |-> data.duration_weeks, is_public |-> data.is_public,
                       created_at |-> now, updated_at |-> NONE, owner_id |-> t.user_id]
       IN IF PlanIntegrity(db_plan)
          THEN /\ plans' = plans \cup {db_plan}
               /\ last' = PlanResp("create_workout_plan", t, db_plan.id, <<db_plan>>, NoData)
          ELSE /\ plans' = plans
               /\ last' = Resp("create_workout_plan", t, NONE, 500, IntegrityError, <<>>, NoData)
    /\ UNCHANGED <<users, exercises, tokens, now, pending, sessions, client>>

\* select(WorkoutPlan).where(owner_id == current_user.user_id), newest first.
OwnerListings(t) == NewestFirst({p \in plans : p.owner_id = t.user_id})

get_workout_plans(t, skip, limit) ==
    /\ verify_token(t)
    /\ \E s \in OwnerListings(t) :
          last' = PlanResp("get_workout_plans", t, NONE, Page(s, skip, limit),
                           [set |-> {}, skip |-> skip, limit |-> limit])
    /\ UNCHANGED <<users, plans, exercises, tokens, now, pending, sessions, client>>

get_workout_plan(t, plan_id) ==
    /\ verify_token(t)
    /\ LET rows == OwnedPlans(t, plan_id)
       IN last' = IF rows = {}
                  THEN Resp("get_workout_plan", t, plan_id, 404, PlanNotFound, <<>>, NoData)
                  ELSE PlanResp("get_workout_plan", t, plan_id,
                                <<CHOOSE p \in rows : TRUE>>, NoData)
    /\ UNCHANGED <<users, plans, exercises, tokens, now, pending, sessions, client>>

\* The row after the setattr loop; onupdate=func.now() stamps updated_at when
\* the flush finds a column whose value differs from the loaded one.
PlanAfterUpdate(plan, data) ==
    LET new == [id |-> plan.id,
                title |-> Given(data, "title", plan.title),
                description |-> Given(data, "description", plan.description),
                difficulty |-> Given(data, "difficulty", plan.difficulty),
                duration_weeks |-> Given(data, "duration_weeks", plan.duration_weeks),
                is_public |-> Given(data, "is_public", plan.is_public),
                created_at |-> plan.created_at,
                updated_at |-> plan.updated_at,
                owner_id |-> plan.owner_id]
    IN IF new = plan THEN plan ELSE [new EXCEPT !.updated_at = now]

update_workout_plan(t, plan_id, data) ==
    /\ verify_token(t)
    /\ LET rows == OwnedPlans(t, plan_id)
       IN IF rows = {}
          THEN /\ plans' = plans
               /\ last' = Resp("update_workout_plan", t, plan_id, 404, PlanNotFound, <<>>, data)
          ELSE LET plan == CHOOSE p \in rows : TRUE
                   new == PlanAfterUpdate(plan, data)
               IN IF PlanIntegrity(new)
                  THEN /\ plans' = (plans \ {plan}) \cup {new}
                       /\ last' = PlanResp("update_workout_plan", t, plan_id, <<new>>, data)
                  ELSE /\ plans' = plans
                       /\ last' = Resp("update_workout_plan", t, plan_id, 500, IntegrityError,
                                       <<>>, data)
    /\ UNCHANGED <<users, exercises, tokens, now, pending, sessions, client>>

delete_workout_plan(t, plan_id) ==
    /\ verify_token(t)
    /\ LET rows == OwnedPlans(t, plan_id)
       IN IF rows = {}
          THEN /\ UNCHANGED <<plans, exercises>>
               /\ last' = Resp("delete_workout_plan", t, plan_id, 404, PlanNotFound, <<>>, NoData)
          ELSE /\ plans' = plans \ rows
               /\ exercises' = exercises \ ExercisesOfPlans(rows)
               /\ last' = Deleting(Resp("delete_workout_plan", t, plan_id, 200, "", <<>>, NoData),
                                   rows, ExercisesOfPlans(rows))
    /\ UNCHANGED <<users, tokens, now, pending, sessions, client>>

-----------------------------------------------------------------------------
(* Exercises: /api/exercises *)

\* select(Exercise).join(WorkoutPlan).where(Exercise.id == exercise_id,
\*                                          WorkoutPlan.owner_id == current_user.user_id)
OwnedExercises(t, exercise_id) ==
    {e \in exercises : /\ e.id = exercise_id
                       /\ \E p \in plans : p.id = e.workout_plan_id /\ p.owner_id = t.user_id}

\* order_by(Exercise.order): ascending, NULL (NONE) first, ties in any order.
\* The listing ordered by id, the order of creation, instead of by `order`.
ById(S) ==
    {s \in Perms(S) : \A i, j \in 1..Len(s) : i < j => s[i].id <= s[j].id}

ByOrder(S) ==
    {s \in Perms(S) : \A i, j \in 1..Len(s) : i < j => s[i].order <= s[j].order}

create_exercise(t, data) ==
    /\ verify_token(t)
    /\ IF OwnedPlans(t, data.workout_plan_id) = {}
       THEN /\ exercises' = exercises
            /\ last' = Resp("create_exercise", t, data.workout_plan_id, 404, PlanNotFound,
                            <<>>, NoData)
       ELSE LET db_exercise ==
                    [id |-> NextId(exercises), name |-> data.name,
                     description |-> data.description, sets |-> data.sets,
                     reps |-> data.reps, rest_seconds |-> data.rest_seconds,
                     \* Column(Integer, default=0): None at INSERT takes the default
                     order |-> IF data.order = NONE THEN 0 ELSE data.order,
                     created_at |-> now, workout_plan_id |-> data.workout_plan_id]
            IN IF ExerciseIntegrity(db_exercise)
               THEN /\ exercises' = exercises \cup {db_exercise}
                    /\ last' = Resp("create_exercise", t, data.workout_plan_id, 200, "",
                                    <<db_exercise>>, NoData)
               ELSE /\ exercises' = exercises
                    /\ last' = Resp("create_exercise", t, data.workout_plan_id, 500,
                                    IntegrityError, <<>>, NoData)
    /\ UNCHANGED <<users, plans, tokens, now, pending, sessions, client>>

get_exercises_by_plan(t, plan_id) ==
    /\ verify_token(t)
    /\ IF OwnedPlans(t, plan_id) = {}
       THEN last' = Resp("get_exercises_by_plan", t, plan_id, 404, PlanNotFound, <<>>, NoData)
       ELSE \E s \in ByOrder({e \in exercises : e.workout_plan_id = plan_id}) :
               last' = Resp("get_exercises_by_plan", t, plan_id, 200, "", s, NoData)
    /\ UNCHANGED <<users, plans, exercises, tokens, now, pending, sessions, client>>

ExerciseAfterUpdate(exercise, data) ==
    [id |-> exercise.id,
     name |-> Given(data, "name", exercise.name),
     description |-> Given(data, "description", exercise.description),
     sets |-> Given(data, "sets", exercise.sets),
     reps |-> Given(data, "reps", exercise.reps),
     rest_seconds |-> Given(data, "rest_seconds", exercise.rest_seconds),
     order |-> Given(data, "order", exercise.order),
     created_at |-> exercise.created_at,
     workout_plan_id |-> exercise.workout_plan_id]

update_exercise(t, exercise_id, data) ==
    /\ verify_token(t)
    /\ LET rows == OwnedExercises(t, exercise_id)
       IN IF rows = {}
          THEN /\ exercises' = exercises
               /\ last' = Resp("update_exercise", t, exercise_id, 404, ExerciseNotFound,
                               <<>>, data)
          ELSE LET exercise == CHOOSE e \in rows : TRUE
                   new == ExerciseAfterUpdate(exercise, data)
               IN IF ExerciseIntegrity(new)
                  THEN /\ exercises' = (exercises \ {exercise}) \cup {new}
                       /\ last' = Resp("update_exercise", t, exercise_id, 200, "", <<new>>, data)
                  ELSE /\ exercises' = exercises
                       /\ last' = Resp("update_exercise", t, exercise_id, 500, IntegrityError,
                                       <<>>, data)
    /\ UNCHANGED <<users, plans, tokens, now, pending, sessions, client>>

delete_exercise(t, exercise_id) ==
    /\ verify_token(t)
    /\ LET rows == OwnedExercises(t, exercise_id)
       IN IF rows = {}
          THEN /\ exercises' = exercises
               /\ last' = Resp("delete_exercise", t, exercise_id, 404, ExerciseNotFound,
                               <<>>, NoData)
          ELSE /\ exercises' = exercises \ rows
               /\ last' = Resp("delete_exercise", t, exercise_id, 200, "", <<>>, NoData)
    /\ UNCHANGED <<users, plans, tokens, now, pending, sessions, client>>

-----------------------------------------------------------------------------
(* Statistics and the public listing *)

get_user_stats(t) ==
    /\ verify_token(t)
    /\ LET mine == {p \in plans : p.owner_id = t.user_id}
       IN last' = Resp("get_user_stats", t, NONE, 200, "",
                       <<[total_plans |-> Cardinality(mine),
                          total_exercises |-> Cardinality(ExercisesOfPlans(mine)),
                          public_plans |-> Cardinality({p \in mine : p.is_public = 1})]>>,
                       NoData)
    /\ UNCHANGED <<users, plans, exercises, tokens, now, pending, sessions, client>>

\* The listing without its is_public condition.
AllPlansPublic == plans

\* The listing with its is_public condition inverted.
PrivatePlans == {p \in plans : p.is_public # 1}

\* select(WorkoutPlan).where(WorkoutPlan.is_public == True)
PublicPlans == {p \in plans : p.is_public = 1}

\* Every result get_public_workout_plans can return for skip and limit.
PublicListings(skip, limit) == {Page(s, skip, limit) : s \in NewestFirst(PublicPlans)}

get_public_workout_plans(skip, limit) ==
    /\ \E rows \in PublicListings(skip, limit) :
          last' = PlanResp("get_public_workout_plans", Anonymous, NONE, rows,
                           [set |-> {}, skip |-> skip, limit |-> limit])
    /\ UNCHANGED <<users, plans, exercises, tokens, now, pending, sessions, client>>

-----------------------------------------------------------------------------
(* Administration: /api/admin *)

\* A dependency that lets every verified token through.
AnyRoleIsAdmin(t) == TRUE

\* get_current_admin_api: the role carried by the verified token.
get_current_admin_api(t) == t.role = ADMIN

\* A guard that never fires.
NeverSelf(t, user_id) == FALSE

\* if user_id == admin.user_id: raise HTTPException(status_code=400, ...)
IsSelf(t, user_id) == user_id = t.user_id

admin_get_users(t) ==
    /\ verify_token(t)
    /\ IF ~get_current_admin_api(t)
       THEN last' = Resp("admin_get_users", t, NONE, 403, Forbidden, <<>>, NoData)
       ELSE \E s \in Perms(users) :
               last' = Resp("admin_get_users", t, NONE, 200, "", s, NoData)
    /\ UNCHANGED <<users, plans, exercises, tokens, now, pending, sessions, client>>

admin_stats(t) ==
    /\ verify_token(t)
    /\ last' = IF ~get_current_admin_api(t)
               THEN Resp("admin_stats", t, NONE, 403, Forbidden, <<>>, NoData)
               ELSE Resp("admin_stats", t, NONE, 200, "",
                         <<[total_users |-> Cardinality(users),
                            total_workout_plans |-> Cardinality(plans),
                            total_exercises |-> Cardinality(exercises),
                            users_by_role |->
                                [r \in {u.role : u \in users} |->
                                    Cardinality({u \in users : u.role = r})]]>>, NoData)
    /\ UNCHANGED <<users, plans, exercises, tokens, now, pending, sessions, client>>

admin_change_user_role(t, user_id, role) ==
    /\ verify_token(t)
    /\ IF ~get_current_admin_api(t)
       THEN /\ users' = users
            /\ last' = Resp("admin_change_user_role", t, user_id, 403, Forbidden, <<>>, NoData)
       ELSE IF IsSelf(t, user_id)
       THEN /\ users' = users
            /\ last' = Resp("admin_change_user_role", t, user_id, 400, "own role", <<>>, NoData)
       ELSE LET rows == {u \in users : u.id = user_id}
            IN IF rows = {}
               THEN /\ users' = users
                    /\ last' = Resp("admin_change_user_role", t, user_id, 404, UserNotFound,
                                    <<>>, NoData)
               ELSE LET user == CHOOSE u \in rows : TRUE
                        new == IF role # NULL THEN [user EXCEPT !.role = role] ELSE user
                    IN /\ users' = (users \ {user}) \cup {new}
                       /\ last' = Resp("admin_change_user_role", t, user_id, 200, "",
                                       <<new>>, NoData)
    /\ UNCHANGED <<plans, exercises, tokens, now, pending, sessions, client>>

admin_delete_user(t, user_id) ==
    /\ verify_token(t)
    /\ IF ~get_current_admin_api(t)
       THEN /\ UNCHANGED <<users, plans, exercises>>
            /\ last' = Resp("admin_delete_user", t, user_id, 403, Forbidden, <<>>, NoData)
       ELSE IF IsSelf(t, user_id)
       THEN /\ UNCHANGED <<users, plans, exercises>>
            /\ last' = Resp("admin_delete_user", t, user_id, 400, "own account", <<>>, NoData)
       ELSE LET rows == {u \in users : u.id = user_id}
            IN IF rows = {}
               THEN /\ UNCHANGED <<users, plans, exercises>>
                    /\ last' = Resp("admin_delete_user", t, user_id, 404, UserNotFound,
                                    <<>>, NoData)
               ELSE LET user == CHOOSE u \in rows : TRUE
                    IN /\ users' = users \ {user}
                       /\ plans' = plans \ PlansOfUser(user)
                       /\ exercises' = exercises \ ExercisesOfPlans(PlansOfUser(user))
                       /\ last' = Deleting(Resp("admin_delete_user", t, user_id, 200, "",
                                                 <<user>>, NoData),
                                           PlansOfUser(user), ExercisesOfPlans(PlansOfUser(user)))
    /\ UNCHANGED <<tokens, now, pending, sessions, client>>

admin_get_all_plans(t, skip, limit) ==
    /\ verify_token(t)
    /\ IF ~get_current_admin_api(t)
       THEN last' = Resp("admin_get_all_plans", t, NONE, 403, Forbidden, <<>>, NoData)
       ELSE \E s \in NewestFirst(plans) :
               last' = PlanResp("admin_get_all_plans", t, NONE, Page(s, skip, limit),
                                [set |-> {}, skip |-> skip, limit |-> limit])
    /\ UNCHANGED <<users, plans, exercises, tokens, now, pending, sessions, client>>

admin_delete_workout_plan(t, plan_id) ==
    /\ verify_token(t)
    /\ IF ~get_current_admin_api(t)
       THEN /\ UNCHANGED <<plans, exercises>>
            /\ last' = Resp("admin_delete_workout_plan", t, plan_id, 403, Forbidden,
                            <<>>, NoData)
       ELSE LET rows == {p \in plans : p.id = plan_id}
            IN IF rows = {}
               THEN /\ UNCHANGED <<plans, exercises>>
                    /\ last' = Resp("admin_delete_workout_plan", t, plan_id, 404, PlanNotFound,
                                    <<>>, NoData)
               ELSE /\ plans' = plans \ rows
                    /\ exercises' = exercises \ ExercisesOfPlans(rows)
                    /\ last' = Deleting(Resp("admin_delete_workout_plan", t, plan_id, 200, "",
                                              <<>>, NoData),
                                        rows, ExercisesOfPlans(rows))
    /\ UNCHANGED <<users, tokens, now, pending, sessions, client>>

-----------------------------------------------------------------------------
(* Users: /api/auth and /api/users/me *)

UserCreate(Es, Us, Ps, Ns) ==
    {[email |-> e, username |-> u, password |-> p, full_name |-> n] :
        e \in Es, u \in Us, p \in Ps, n \in Ns}

UserUpdate(Fs, Es, Us, Ps, Ns) ==
    {[set |-> S,
      email |-> IF "email" \in S THEN e ELSE NULL,
      username |-> IF "username" \in S THEN u ELSE NULL,
      full_name |-> IF "full_name" \in S THEN n ELSE NULL,
      password |-> IF "password" \in S THEN p ELSE NULL] :
        S \in SUBSET Fs, e \in Es, u \in Us, p \in Ps, n \in Ns}

\* select(User).where((User.email == email) | (User.username == username))
UsersMatching(email, username) ==
    {u \in users : u.email = email \/ u.username = username}

\* A registration that created an administrator.
NewAdmin(user_data) ==
    [id |-> NextId(users), email |-> user_data.email, username |-> user_data.username,
     hashed_password |-> get_password_hash(user_data.password),
     full_name |-> user_data.full_name, role |-> ADMIN]

\* User(email=..., username=..., hashed_password=..., full_name=..., role=USER)
NewUser(user_data) ==
    [id |-> NextId(users), email |-> user_data.email, username |-> user_data.username,
     hashed_password |-> get_password_hash(user_data.password),
     full_name |-> user_data.full_name, role |-> USER]

\* db.add(new_user); db.commit(): the INSERT, refused by a violated constraint.
InsertUser(op, user_data) ==
    LET new_user == NewUser(user_data)
    IN IF UsersIntegrity(users \cup {new_user})
       THEN /\ Cardinality(users) < MaxUsers
            /\ users' = users \cup {new_user}
            /\ last' = Resp(op, Anonymous, new_user.id, 200, "", <<new_user>>, user_data)
       ELSE /\ users' = users
            /\ last' = Resp(op, Anonymous, NONE, 500, IntegrityError, <<>>, user_data)

api_register(user_data) ==
    /\ LET rows == UsersMatching(user_data.email, user_data.username)
       IN IF MultipleResultsFound(rows)
          THEN /\ users' = users
               /\ last' = Resp("api_register", Anonymous, NONE, 500, MultipleRows, <<>>, user_data)
          ELSE IF rows # {}
          THEN /\ users' = users
               /\ last' = Resp("api_register", Anonymous, NONE, 400, "already exists",
                               <<>>, user_data)
          ELSE InsertUser("api_register", user_data)
    /\ UNCHANGED <<plans, exercises, tokens, now, pending, sessions, client>>

api_login(username, password) ==
    /\ LET rows == UsersMatching(username, username)
       IN IF MultipleResultsFound(rows)
          THEN /\ tokens' = tokens
               /\ last' = Resp("api_login", Anonymous, NONE, 500, MultipleRows, <<>>, NoData)
          ELSE IF rows = {} \/ ~verify_password(password, (CHOOSE u \in rows : TRUE).hashed_password)
          THEN /\ tokens' = tokens
               /\ last' = Resp("api_login", Anonymous, NONE, 401, Unauthorized, <<>>, NoData)
          ELSE LET user == CHOOSE u \in rows : TRUE
                   access_token == create_access_token(user)
               IN /\ Cardinality(tokens \cup {access_token}) <= MaxTokens
                  /\ tokens' = tokens \cup {access_token}
                  /\ last' = Resp("api_login", Anonymous, user.id, 200, "",
                                  <<access_token>>, NoData)
    /\ UNCHANGED <<users, plans, exercises, now, pending, sessions, client>>

get_current_user_info(t) ==
    /\ verify_token(t)
    /\ LET rows == {u \in users : u.id = t.user_id}
       IN last' = IF rows = {}
                  THEN Resp("get_current_user_info", t, NONE, 404, UserNotFound, <<>>, NoData)
                  ELSE Resp("get_current_user_info", t, NONE, 200, "",
                            <<CHOOSE u \in rows : TRUE>>, NoData)
    /\ UNCHANGED <<users, plans, exercises, tokens, now, pending, sessions, client>>

\* The uniqueness SELECTs of update_current_user: the detail of the 400 they
\* raise for the loaded row `user`, or "" when both pass.
UpdateConflict(user, data) ==
    IF /\ "email" \in data.set
       /\ data.email # user.email
       /\ \E u \in users : u.email = data.email
    THEN "email in use"
    ELSE IF /\ "username" \in data.set
            /\ data.username # user.username
            /\ \E u \in users : u.username = data.username
    THEN "username in use"
    ELSE ""

\* The columns update_current_user assigns, applied to a row.
UserAfterUpdate(user, data) ==
    [id |-> user.id,
     email |-> Given(data, "email", user.email),
     username |-> Given(data, "username", user.username),
     hashed_password |-> IF "password" \in data.set
                         THEN get_password_hash(data.password)
                         ELSE user.hashed_password,
     full_name |-> Given(data, "full_name", user.full_name),
     role |-> user.role]

\* The flush writes the columns whose value differs from the loaded row; a
\* new hash always differs.
Dirty(user, data) ==
    [data EXCEPT !.set = {k \in data.set : k = "password" \/ data[k] # user[k]}]

\* db.commit(); db.refresh(user): the UPDATE of the row with the loaded
\* primary key, refused by a violated constraint or a row that is gone.
CommitUser(op, t, user, data) ==
    LET rows == {u \in users : u.id = user.id}
    IN IF rows = {}
       THEN /\ users' = users
            /\ last' = Resp(op, t, user.id, 500, StaleDataError, <<>>, data)
       ELSE LET stored == CHOOSE u \in rows : TRUE
                new == UserAfterUpdate(stored, Dirty(user, data))
            IN IF UsersIntegrity((users \ {stored}) \cup {new})
               THEN /\ users' = (users \ {stored}) \cup {new}
                    /\ last' = Resp(op, t, user.id, 200, "", <<new>>, data)
               ELSE /\ users' = users
                    /\ last' = Resp(op, t, user.id, 500, IntegrityError, <<>>, data)

update_current_user(t, data) ==
    /\ verify_token(t)
    /\ LET rows == {u \in users : u.id = t.user_id}
       IN IF rows = {}
          THEN /\ users' = users
               /\ last' = Resp("update_current_user", t, t.user_id, 404, UserNotFound, <<>>, data)
          ELSE LET user == CHOOSE u \in rows : TRUE
               IN IF UpdateConflict(user, data) # ""
                  THEN /\ users' = users
                       /\ last' = Resp("update_current_user", t, t.user_id, 400,
                                       UpdateConflict(user, data), <<>>, data)
                  ELSE CommitUser("update_current_user", t, user, data)
    /\ UNCHANGED <<plans, exercises, tokens, now, pending, sessions, client>>

-----------------------------------------------------------------------------
(* Two requests in flight: a handler's SELECTs and its commit as two steps, *)
(* as when several server processes share the database.                    *)

Conns == 1..MaxPending

\* A request in flight: its connection, its caller, the row it loaded (none
\* for a registration) and its payload.
NoUser ==
    [id |-> NONE, email |-> NULL, username |-> NULL,
     hashed_password |-> get_password_hash(NULL), full_name |-> NULL, role |-> USER]

AllSet(user_data) ==
    [set |-> {"email", "username", "full_name", "password"}, email |-> user_data.email,
     username |-> user_data.username, full_name |-> user_data.full_name,
     password |-> user_data.password]

Free(conn) == \A r \in pending : r.conn # conn

Pending == "pending"

api_register_select(conn, user_data) ==
    /\ Free(conn)
    /\ LET rows == UsersMatching(user_data.email, user_data.username)
       IN IF MultipleResultsFound(rows)
          THEN /\ pending' = pending
               /\ last' = Resp("api_register", Anonymous, NONE, 500, MultipleRows, <<>>, user_data)
          ELSE IF rows # {}
          THEN /\ pending' = pending
               /\ last' = Resp("api_register", Anonymous, NONE, 400, "already exists",
                               <<>>, user_data)
          ELSE /\ pending' = pending \cup
                      {[conn |-> conn, op |-> "api_register", t |-> Anonymous,
                        user |-> NoUser, data |-> AllSet(user_data)]}
               /\ last' = Resp("api_register", Anonymous, NONE, 0, Pending, <<>>, user_data)
    /\ UNCHANGED <<users, plans, exercises, tokens, now, sessions, client>>

api_register_commit(conn) ==
    /\ \E r \in pending :
          /\ r.conn = conn
          /\ r.op = "api_register"
          /\ InsertUser("api_register", r.data)
          /\ pending' = pending \ {r}
    /\ UNCHANGED <<plans, exercises, tokens, now, sessions, client>>

update_current_user_select(conn, t, data) ==
    /\ Free(conn)
    /\ verify_token(t)
    /\ LET rows == {u \in users : u.id = t.user_id}
       IN IF rows = {}
          THEN /\ pending' = pending
               /\ last' = Resp("update_current_user", t, t.user_id, 404, UserNotFound, <<>>, data)
          ELSE LET user == CHOOSE u \in rows : TRUE
               IN IF UpdateConflict(user, data) # ""
                  THEN /\ pending' = pending
                       /\ last' = Resp("update_current_user", t, t.user_id, 400,
                                       UpdateConflict(user, data), <<>>, data)
                  ELSE /\ pending' = pending \cup
                              {[conn |-> conn, op |-> "update_current_user", t |-> t,
                                user |-> user, data |-> data]}
                       /\ last' = Resp("update_current_user", t, t.user_id, 0, Pending,
                                       <<>>, data)
    /\ UNCHANGED <<users, plans, exercises, tokens, now, sessions, client>>

update_current_user_commit(conn) ==
    /\ \E r \in pending :
          /\ r.conn = conn
          /\ r.op = "update_current_user"
          /\ CommitUser("update_current_user", r.t, r.user, r.data)
          /\ pending' = pending \ {r}
    /\ UNCHANGED <<plans, exercises, tokens, now, sessions, client>>

\* HTTPBearer / verify_token refusing a credential: any protected route.
ProtectedOps ==
    {"create_workout_plan", "get_workout_plans", "get_workout_plan", "update_workout_plan",
     "delete_workout_plan", "create_exercise", "get_exercises_by_plan", "update_exercise",
     "delete_exercise", "get_user_stats", "admin_get_users", "admin_stats",
     "admin_change_user_role", "admin_delete_user", "admin_get_all_plans",
     "admin_delete_workout_plan", "get_current_user_info", "update_current_user"}

get_current_user_api(op, t) ==
    /\ ~verify_token(t)
    /\ last' = Resp(op, t, NONE, 401, Unauthorized, <<>>, NoData)
    /\ UNCHANGED <<users, plans, exercises, tokens, now, pending, sessions, client>>

\* The clock of func.now() advances between requests.
Tick ==
    /\ now < MaxTime
    /\ now' = now + 1
    /\ last' = Resp("tick", Anonymous, NONE, 200, "", <<>>, NoData)
    /\ UNCHANGED <<users, plans, exercises, tokens, pending, sessions, client>>

-----------------------------------------------------------------------------
(* The service after startup(), and its requests *)

\* The client of the end-to-end sequence before its first request.
NoClient == [pc |-> "start", token |-> BadToken, plan_id |-> NONE, failed |-> ""]

\* startup(): an empty users table is seeded with the default administrator
\* (its full_name, a Russian phrase in the source, is written "admin").
DefaultAdmin ==
    [id |-> 1, email |-> "admin@example.com", username |-> "admin",
     hashed_password |-> get_password_hash("admin123"), full_name |-> "admin", role |-> ADMIN]

Init ==
    /\ users = {DefaultAdmin}
    /\ plans = {}
    /\ exercises = {}
    /\ tokens = {}
    /\ now = 0
    /\ pending = {}
    /\ sessions = {}
    /\ client = NoClient
    /\ last = Resp("startup", Anonymous, NONE, 200, "", <<>>, NoData)

UserIds == 1..MaxUsers
PlanIds == 1..MaxPlans
ExerciseIds == 1..MaxExercises
Skips == 0..1
Limits == 1..2

\* Two people, alice and bob, and the administrator.
Registrations ==
    UserCreate({"a@x.com"}, {"alice"}, {"secret1"}, {NULL})
        \cup UserCreate({"b@x.com"}, {"bob"}, {"secret1"}, {NULL})
Logins == {<<"admin", "admin123">>, <<"alice", "secret1">>, <<"bob", "secret1">>,
           <<"alice", "wrong">>}
NewPlans == WorkoutPlanCreate({"5k Plan"}, {NULL}, {NULL}, {NONE}, {0})
PlanChanges == WorkoutPlanUpdate({"is_public"}, {NULL}, {NULL}, {NULL}, {NONE}, {1})
NewExercises == ExerciseCreate({"squat"}, {NULL}, {NONE}, {NULL}, {NONE}, {NONE}, PlanIds)
ExerciseChanges == ExerciseUpdate({"order"}, {NULL}, {NULL}, {NONE}, {NULL}, {NONE}, {1})

Register == \E d \in Registrations : api_register(d)
Login == \E l \in Logins : api_login(l[1], l[2])
Refused == get_current_user_api("get_current_user_api", BadToken)
CreatePlan == \E t \in tokens, d \in NewPlans : create_workout_plan(t, d)
ListPlans == \E t \in tokens, skip \in Skips, limit \in Limits : get_workout_plans(t, skip, limit)
GetPlan == \E t \in tokens, id \in PlanIds : get_workout_plan(t, id)
UpdatePlan == \E t \in tokens, id \in PlanIds, d \in PlanChanges : update_workout_plan(t, id, d)
DeletePlan == \E t \in tokens, id \in PlanIds : delete_workout_plan(t, id)
\* The exercises table is kept to `max` rows: a create_exercise request that
\* would insert a row is made only below that size.
Room(t, d, max) == OwnedPlans(t, d.workout_plan_id) = {} \/ Cardinality(exercises) < max
CreateExercise ==
    \E t \in tokens, d \in NewExercises : Room(t, d, MaxExercises) /\ create_exercise(t, d)
ListExercises == \E t \in tokens, id \in PlanIds : get_exercises_by_plan(t, id)
UpdateExercise ==
    \E t \in tokens, id \in ExerciseIds, d \in ExerciseChanges : update_exercise(t, id, d)
DeleteExercise == \E t \in tokens, id \in ExerciseIds : delete_exercise(t, id)
UserStats == \E t \in tokens : get_user_stats(t)
PublicPlanList == \E skip \in Skips, limit \in Limits : get_public_workout_plans(skip, limit)
AdminUsers == \E t \in tokens : admin_get_users(t)
AdminStats == \E t \in tokens : admin_stats(t)
AdminDemote ==
    \E t \in tokens, id \in UserIds, r \in {USER, NULL} : admin_change_user_role(t, id, r)
AdminDeleteUser == \E t \in tokens, id \in UserIds : admin_delete_user(t, id)
AdminPlans ==
    \E t \in tokens, skip \in Skips, limit \in Limits : admin_get_all_plans(t, skip, limit)
AdminDeletePlan == \E t \in tokens, id \in PlanIds : admin_delete_workout_plan(t, id)
Me == \E t \in tokens : get_current_user_info(t)

\* Owner-scoped CRUD on plans and exercises.
Next ==
    \/ Register
    \/ Login
    \/ Refused
    \/ CreatePlan
    \/ GetPlan
    \/ UpdatePlan
    \/ DeletePlan
    \/ CreateExercise
    \/ ListExercises
    \/ UpdateExercise
    \/ DeleteExercise

Spec == Init /\ [][Next]_vars

\* The administrator's routes over users, plans and exercises.
AdminNext ==
    \/ Register
    \/ Login
    \/ CreatePlan
    \/ CreateExercise
    \/ AdminUsers
    \/ AdminStats
    \/ AdminDemote
    \/ AdminDeleteUser
    \/ AdminPlans
    \/ AdminDeletePlan

AdminSpec == Init /\ [][AdminNext]_vars

\* Registration and profile changes, with every pairing of two emails and
\* two usernames.
AnyRegistrations ==
    UserCreate({"a@x.com", "b@x.com"}, {"alice", "bob"}, {"secret1"}, {NULL})
ProfileChanges ==
    UserUpdate({"email", "username"}, {"a@x.com", "b@x.com"}, {"alice", "bob"},
               {"secret1"}, {NULL})
AnyLogins == {<<"admin", "admin123">>, <<"alice", "secret1">>, <<"bob", "secret1">>,
              <<"a@x.com", "secret1">>, <<"bob", "wrong">>}

RegisterAny == \E d \in AnyRegistrations : api_register(d)
LoginAny == \E l \in AnyLogins : api_login(l[1], l[2])
UpdateMe == \E t \in tokens, d \in ProfileChanges : update_current_user(t, d)
AdminChangeRole ==
    \E t \in tokens, id \in UserIds, r \in UserRole \cup {NULL} : admin_change_user_role(t, id, r)

\* The users table: accounts, profiles and roles.
UserNext ==
    \/ RegisterAny
    \/ LoginAny
    \/ UpdateMe
    \/ Me
    \/ AdminChangeRole
    \/ AdminDeleteUser

UserSpec == Init /\ [][UserNext]_vars

AdminLogin == api_login("admin", "admin123")
RegisterSelect == \E c \in Conns, d \in AnyRegistrations : api_register_select(c, d)
RegisterCommit == \E c \in Conns : api_register_commit(c)
UpdateMeSelect ==
    \E c \in Conns, t \in tokens, d \in ProfileChanges : update_current_user_select(c, t, d)
UpdateMeCommit == \E c \in Conns : update_current_user_commit(c)

\* Registrations and profile changes of several server processes, interleaved
\* between their SELECTs and their commit.
RaceNext ==
    \/ RegisterSelect
    \/ RegisterCommit
    \/ AdminLogin
    \/ UpdateMeSelect
    \/ UpdateMeCommit

RaceSpec == Init /\ [][RaceNext]_vars

\* Partial updates: every subset of the plan fields, and of two exercise
\* fields, sent to plan 1 and to the exercises; a second plan stands by.
AnyPlanChanges ==
    WorkoutPlanUpdate(PlanFields, {"10k Plan", NULL}, {"easy"}, {"beginner"}, {4}, {1, NONE})
AnyExerciseChanges ==
    ExerciseUpdate({"name", "order"}, {"lunge", NULL}, {NULL}, {NONE}, {NULL}, {NONE}, {1})
UpdateFirstPlan == \E t \in tokens, d \in AnyPlanChanges : update_workout_plan(t, 1, d)
UpdateAnyExercise ==
    \E t \in tokens, id \in ExerciseIds, d \in AnyExerciseChanges : update_exercise(t, id, d)

UpdateNext ==
    \/ AdminLogin
    \/ CreatePlan
    \/ CreateExercise
    \/ UpdateFirstPlan
    \/ UpdateAnyExercise

UpdateSpec == Init /\ [][UpdateNext]_vars

\* The public listing, over plans that are created public or private and
\* switched either way, as the clock advances.
VisiblePlans == WorkoutPlanCreate({"5k Plan"}, {NULL}, {NULL}, {NONE}, {0, 1})
VisibilityChanges ==
    WorkoutPlanUpdate({"is_public"}, {NULL}, {NULL}, {NULL}, {NONE}, {0, 1, NONE})
CreateVisible == \E t \in tokens, d \in VisiblePlans : create_workout_plan(t, d)
ChangeVisibility ==
    \E t \in tokens, id \in PlanIds, d \in VisibilityChanges : update_workout_plan(t, id, d)

RegisterAlice == \E d \in {r \in Registrations : r.username = "alice"} : api_register(d)

PublicNext ==
    \/ RegisterAlice
    \/ Login
    \/ CreateVisible
    \/ ChangeVisibility
    \/ DeletePlan
    \/ PublicPlanList
    \/ Tick

PublicSpec == Init /\ [][PublicNext]_vars

-----------------------------------------------------------------------------
(* Properties *)

PlanOps == {"get_workout_plan", "update_workout_plan", "delete_workout_plan"}

\* C1: a non-admin caller who reads, updates or deletes by id a plan owned by
\* someone else gets 404 with the body of a missing plan, never 403 and never
\* success, and plans and exercises stay as they were; a plan id that does
\* not exist gives the same response.
OwnershipHidden ==
    [][(/\ last'.op \in PlanOps
        /\ last'.role # ADMIN
        /\ \A p \in plans : p.id = last'.id => p.owner_id # last'.user_id)
       => /\ last'.status = 404
          /\ last'.detail = PlanNotFound
          /\ last'.rows = <<>>
          /\ plans' = plans
          /\ exercises' = exercises]_vars

\* A non-admin caller was just refused the deletion of another user's plan,
\* which has an exercise.
OwnershipHiddenWitness ==
    /\ last.op = "delete_workout_plan"
    /\ last.role = USER
    /\ last.status = 404
    /\ \E p \in plans : /\ p.id = last.id
                        /\ p.owner_id # last.user_id
                        /\ \E e \in exercises : e.workout_plan_id = p.id

\* C2: an admin caller can read, update and delete any existing plan, and
\* the exercises of any plan, through the owner-scoped routes.
AdminFilterDropped ==
    [][(last'.role = ADMIN)
       => /\ (last'.op \in PlanOps \cup {"get_exercises_by_plan"}
                /\ \E p \in plans : p.id = last'.id)
             => last'.status = 200
          /\ (last'.op \in {"update_exercise", "delete_exercise"}
                /\ \E e \in exercises : e.id = last'.id)
             => last'.status = 200]_vars

\* C5: every plan's owner_id names exactly one users row and every
\* exercise's workout_plan_id names exactly one workout_plans row.
ReferentialIntegrity ==
    /\ \A p \in plans : Cardinality({u \in users : u.id = p.owner_id}) = 1
    /\ \A e \in exercises : Cardinality({p \in plans : p.id = e.workout_plan_id}) = 1

\* C6: when admin_delete_user succeeds for a user, that user's plans and
\* their exercises are gone: no listing (owner, admin, public) holds them and
\* a get by their id finds nothing, for any token; the plans and exercises of
\* the other users are as they were.
UserDeleteCascades ==
    [][(last'.op = "admin_delete_user" /\ last'.status = 200)
       => LET gone == {p \in plans : p.owner_id = last'.id}
              goneEx == {e \in exercises : \E p \in gone : e.workout_plan_id = p.id}
          IN /\ \A u \in users' : u.id # last'.id
             /\ plans' = plans \ gone
             /\ exercises' = exercises \ goneEx
             /\ \A t \in tokens', p \in gone :
                   /\ OwnedPlans(t, p.id)' = {}
                   /\ \A s \in OwnerListings(t)' : p \notin Range(s)
             /\ \A p \in gone :
                   /\ \A s \in NewestFirst(plans)' : p \notin Range(s)
                   /\ \A s \in NewestFirst(PublicPlans)' : p \notin Range(s)
             /\ \A t \in tokens', e \in goneEx : OwnedExercises(t, e.id)' = {}]_vars

\* A user who had a plan with an exercise was just deleted, and a plan of
\* another user is still there.
UserDeleteCascadesWitness ==
    /\ last.op = "admin_delete_user"
    /\ last.status = 200
    /\ last.deleted.plans # {}
    /\ last.deleted.exercises # {}
    /\ \E p \in plans : p.owner_id # last.id

\* C7: an admin caller naming their own id in admin_change_user_role or
\* admin_delete_user is refused with 400 or 403, and users, plans and
\* exercises stay as they were.
AdminSelfProtected ==
    [][(/\ last'.op \in {"admin_change_user_role", "admin_delete_user"}
        /\ last'.role = ADMIN
        /\ last'.id = last'.user_id)
       => /\ last'.status \in {400, 403}
          /\ users' = users
          /\ plans' = plans
          /\ exercises' = exercises]_vars

\* The administrator, who owns a plan, was just refused their own deletion.
AdminSelfProtectedWitness ==
    /\ last.op = "admin_delete_user"
    /\ last.role = ADMIN
    /\ last.id = last.user_id
    /\ last.status = 400
    /\ \E u \in users : u.id = last.id
    /\ \E p \in plans : p.owner_id = last.id

AdminOps ==
    {"admin_get_users", "admin_stats", "admin_change_user_role", "admin_delete_user",
     "admin_get_all_plans", "admin_delete_workout_plan"}

\* C8: an admin-only route called with a verified token whose role is not
\* admin answers 403 and changes no user, plan or exercise.
AdminOnly ==
    [][(last'.op \in AdminOps /\ last'.role # ADMIN)
       => /\ last'.status = 403
          /\ users' = users
          /\ plans' = plans
          /\ exercises' = exercises]_vars

\* A non-admin caller was just refused the deletion of another, existing
\* user while plans exist.
AdminOnlyWitness ==
    /\ last.op = "admin_delete_user"
    /\ last.role = USER
    /\ last.status = 403
    /\ \E u \in users : u.id = last.id /\ u.id # last.user_id
    /\ plans # {}

\* C3: a registration whose email or username is already used by some user
\* (one user, or two different ones) fails with Conflict, and the users table
\* is as it was.
RegisterConflict ==
    [][(/\ last'.op = "api_register"
        /\ \E u \in users : u.email = last'.data.email \/ u.username = last'.data.username)
       => /\ last'.status \in {400, 409}
          /\ users' = users]_vars

\* C4: no two distinct users share an email or a username, also when
\* registrations and profile changes pass their SELECTs before each other's
\* commit.
UniqueIdentities ==
    \A u, v \in users :
        u # v => /\ u.id # v.id
                 /\ u.email # v.email
                 /\ u.username # v.username

\* A profile change that passed its SELECTs was refused at commit, because a
\* registration committed the same email in between.
UniqueIdentitiesWitness ==
    /\ last.op = "update_current_user"
    /\ last.status = 500
    /\ last.detail = IntegrityError
    /\ \E u \in users : /\ u.id # last.id
                        /\ u.id # 1
                        /\ "email" \in last.data.set
                        /\ u.email = last.data.email

\* The plan, or the exercise, an update request of its owner addresses.
Addressed(resp) ==
    IF resp.op = "update_workout_plan"
    THEN {p \in plans : p.id = resp.id /\ p.owner_id = resp.user_id}
    ELSE IF resp.op = "update_exercise"
    THEN {e \in exercises : /\ e.id = resp.id
                            /\ \E p \in plans : /\ p.id = e.workout_plan_id
                                                /\ p.owner_id = resp.user_id}
    ELSE {}

\* C9 as stated: an update with the fields of S supplied sets them to the
\* supplied values and leaves every other field of the row, every other plan
\* and every exercise unchanged; the same for update_exercise.
PartialUpdate ==
    [][\A row \in Addressed(last') :
          LET data == last'.data
              new == [k \in DOMAIN row |-> IF k \in data.set THEN data[k] ELSE row[k]]
          IN IF last'.op = "update_workout_plan"
             THEN /\ \E p \in plans' : \A k \in DOMAIN row : p[k] = new[k]
                  /\ \A p \in plans : p.id # row.id => p \in plans'
                  /\ Cardinality(plans') = Cardinality(plans)
                  /\ exercises' = exercises
             ELSE /\ \E e \in exercises' : \A k \in DOMAIN row : e[k] = new[k]
                  /\ \A e \in exercises : e.id # row.id => e \in exercises'
                  /\ Cardinality(exercises') = Cardinality(exercises)
                  /\ plans' = plans]_vars

\* C9, amended: an update with the fields of S supplied sets them to the
\* supplied values and leaves every other field of the row unchanged, except
\* that a plan's updated_at becomes the current time when a supplied value
\* differs from the stored one; every other plan and every exercise is
\* unchanged. A null title (name, for an exercise) is refused with 500 and
\* nothing changes.
PartialUpdateStamped ==
    [][\A row \in Addressed(last') :
          LET data == last'.data
              isPlan == last'.op = "update_workout_plan"
              required == IF isPlan THEN "title" ELSE "name"
              stamped == isPlan /\ \E k \in data.set : data[k] # row[k]
              new == [k \in DOMAIN row |->
                        IF k \in data.set THEN data[k]
                        ELSE IF k = "updated_at" /\ stamped THEN now
                        ELSE row[k]]
          IN IF required \in data.set /\ data[required] = NULL
             THEN /\ last'.status = 500
                  /\ plans' = plans
                  /\ exercises' = exercises
             ELSE IF isPlan
             THEN /\ \E p \in plans' : \A k \in DOMAIN row : p[k] = new[k]
                  /\ \A p \in plans : p.id # row.id => p \in plans'
                  /\ Cardinality(plans') = Cardinality(plans)
                  /\ exercises' = exercises
             ELSE /\ \E e \in exercises' : \A k \in DOMAIN row : e[k] = new[k]
                  /\ \A e \in exercises : e.id # row.id => e \in exercises'
                  /\ Cardinality(exercises') = Cardinality(exercises)
                  /\ plans' = plans]_vars

\* Only the title of plan 1 was just updated: its description, set by an
\* earlier update, is still there, beside a second plan and an exercise.
PartialUpdateStampedWitness ==
    /\ last.op = "update_workout_plan"
    /\ last.status = 200
    /\ last.data.set = {"title"}
    /\ Cardinality(plans) = 2
    /\ exercises # {}
    /\ \E p \in plans : /\ p.id = last.id
                        /\ p.title = "10k Plan"
                        /\ p.description = "easy"
                        /\ p.updated_at = now

\* C10: the public listing holds only stored plans whose is_public is true,
\* whoever owns them and whatever creations, updates and deletions came
\* before, for every skip and limit.
PublicOnly ==
    last.op = "get_public_workout_plans"
        => \A i \in 1..Len(last.rows) : /\ last.rows[i] \in plans
                                        /\ last.rows[i].is_public = 1

\* The listing just returned a user's public plan while a plan that was
\* switched from public to private is stored.
PublicOnlyWitness ==
    /\ last.op = "get_public_workout_plans"
    /\ last.status = 200
    /\ \E i \in 1..Len(last.rows) : last.rows[i].owner_id # 1
    /\ \E p \in plans : /\ p.is_public = 0
                        /\ p.updated_at # NONE

\* C11: create_workout_plan stamps the new plan with the caller's id, and
\* create_exercise answers 404 and creates nothing when workout_plan_id names
\* no plan or a plan the caller does not own; a created exercise belongs to
\* a plan owned by its creator.
CreateStamps ==
    [][/\ (last'.op = "create_workout_plan" /\ last'.status = 200)
          => \E p \in plans' : /\ p \notin plans
                               /\ p.owner_id = last'.user_id
                               /\ plans' = plans \cup {p}
       /\ last'.op = "create_exercise"
          => IF \E p \in plans : p.id = last'.id /\ p.owner_id = last'.user_id
             THEN last'.status = 200
                     => \E e \in exercises' :
                           /\ e \notin exercises
                           /\ exercises' = exercises \cup {e}
                           /\ e.workout_plan_id = last'.id
             ELSE /\ last'.status = 404
                  /\ exercises' = exercises]_vars

\* An exercise was just refused under a stored plan of another user.
CreateStampsWitness ==
    /\ last.op = "create_exercise"
    /\ last.status = 404
    /\ exercises = {}
    /\ \E p \in plans : p.id = last.id /\ p.owner_id # last.user_id

-----------------------------------------------------------------------------
(* The end-to-end sequence: one client registers alice, logs in, creates a   *)
(* public plan, finds it in the public listing and deletes it, each request  *)
(* directly after the response to the one before; other requests come       *)
(* before the sequence and after it.                                         *)

Alice == CHOOSE d \in UserCreate({"a@x.com"}, {"alice"}, {"secret1"}, {NULL}) : TRUE
Bob == CHOOSE d \in UserCreate({"b@x.com"}, {"bob"}, {"secret1"}, {NULL}) : TRUE
PublicFiveK == CHOOSE d \in WorkoutPlanCreate({"5k Plan"}, {NULL}, {NULL}, {NONE}, {1}) : TRUE

\* skip: int = Query(0, ge=0), limit: int = Query(12, ge=1, le=50)
DefaultSkip == 0
DefaultLimit == 12

\* The response in `last` answers the client's request and is not read yet.
Sent ==
    CASE client.pc = "start" -> last.op = "api_register" /\ last.data = Alice
      [] client.pc = "registered" -> last.op = "api_login"
      [] client.pc = "logged_in" -> last.op = "create_workout_plan"
      [] client.pc = "created" -> last.op = "get_public_workout_plans"
      [] client.pc = "listed" -> last.op = "delete_workout_plan"
      [] OTHER -> FALSE

ClientRegisters ==
    /\ client.pc = "start"
    /\ ~Sent
    /\ UsersMatching(Alice.email, Alice.username) = {}
    /\ api_register(Alice)

ClientLogsIn ==
    /\ client.pc = "registered"
    /\ ~Sent
    /\ api_login(Alice.username, Alice.password)

ClientCreates ==
    /\ client.pc = "logged_in"
    /\ ~Sent
    /\ create_workout_plan(client.token, PublicFiveK)

ClientLists ==
    /\ client.pc = "created"
    /\ ~Sent
    /\ get_public_workout_plans(DefaultSkip, DefaultLimit)

ClientDeletes ==
    /\ client.pc = "listed"
    /\ ~Sent
    /\ delete_workout_plan(client.token, client.plan_id)

\* The client reads the response: it goes on when the step did what the
\* sequence expects of it, and stops otherwise.
ClientReads ==
    /\ Sent
    /\ client' =
          IF last.status # 200
          THEN [client EXCEPT !.failed = last.op, !.pc = "failed"]
          ELSE CASE client.pc = "start" -> [client EXCEPT !.pc = "registered"]
                 [] client.pc = "registered" ->
                        [client EXCEPT !.pc = "logged_in", !.token = last.rows[1]]
                 [] client.pc = "logged_in" ->
                        [client EXCEPT !.pc = "created", !.plan_id = last.id]
                 [] client.pc = "created" ->
                        IF \E i \in 1..Len(last.rows) : last.rows[i].id = client.plan_id
                        THEN [client EXCEPT !.pc = "listed"]
                        ELSE [client EXCEPT !.failed = last.op, !.pc = "failed"]
                 [] client.pc = "listed" -> [client EXCEPT !.pc = "deleted"]
    /\ UNCHANGED <<users, plans, exercises, tokens, now, pending, sessions, last>>

\* Requests of anyone, before the sequence starts and after it has ended.
Elsewhere == client.pc \in {"start", "deleted"} /\ ~Sent

EndToEndNext ==
    \/ ClientRegisters
    \/ ClientLogsIn
    \/ ClientCreates
    \/ ClientLists
    \/ ClientDeletes
    \/ ClientReads
    \/ Elsewhere /\ api_register(Bob)
    \/ Elsewhere /\ Login
    \/ Elsewhere /\ CreateVisible
    \/ Elsewhere /\ DeletePlan
    \/ Elsewhere /\ GetPlan

EndToEndSpec == Init /\ [][EndToEndNext]_vars

-----------------------------------------------------------------------------
(* Exercise listings: several exercises in two plans, created with and       *)
(* moved to different `order` values, deleted and created again.            *)

OrderedExercises ==
    ExerciseCreate({"squat"}, {NULL}, {NONE}, {NULL}, {NONE}, {NONE, 1, 2}, PlanIds)
Reorders == ExerciseUpdate({"order"}, {NULL}, {NULL}, {NONE}, {NULL}, {NONE}, {0, 2, NONE})

OrderNext ==
    \/ AdminLogin
    \/ CreatePlan
    \/ \E t \in tokens, d \in OrderedExercises :
           Room(t, d, MaxOrdered) /\ create_exercise(t, d)
    \/ \E t \in tokens, id \in 1..MaxOrdered, d \in Reorders : update_exercise(t, id, d)
    \/ \E t \in tokens, id \in 1..MaxOrdered : delete_exercise(t, id)
    \/ ListExercises

OrderSpec == Init /\ [][OrderNext]_vars

\* C13: get_exercises_by_plan returns exactly the exercises of the plan, each
\* once, sorted by `order` ascending, however they were created and updated.
ListedByOrder ==
    (last.op = "get_exercises_by_plan" /\ last.status = 200)
        => LET of_plan == {e \in exercises : e.workout_plan_id = last.id}
           IN /\ Range(last.rows) = of_plan
              /\ Len(last.rows) = Cardinality(of_plan)
              /\ \A i, j \in 1..Len(last.rows) :
                    i < j => last.rows[i].order <= last.rows[j].order

\* A listing of two exercises just put the one created later first, because
\* its `order` is lower, while another plan has an exercise of its own.
ListedByOrderWitness ==
    /\ last.op = "get_exercises_by_plan"
    /\ last.status = 200
    /\ Len(last.rows) = 2
    /\ last.rows[1].id > last.rows[2].id
    /\ last.rows[1].order < last.rows[2].order
    /\ \E e \in exercises : e.workout_plan_id # last.id

\* C14: after any registrations, logins, role changes and user deletions
\* made with tokens that carried role admin when they were issued, some user
\* with role admin is stored.
AdminExists == \E u \in users : u.role = ADMIN

-----------------------------------------------------------------------------
(* The web pages: the sessions dict behind the session_token cookie *)

\* sessions.get(token): the identity records stored under a session token.
get_current_user_session(token) == {s \in sessions : s.token = token}

\* secrets.token_hex(32) and sessions[session_token] = {...}: a token no
\* session has, and the identity captured from the users row.
NewSession(user) ==
    [token |-> IF sessions = {} THEN 1 ELSE Max({s.token : s \in sessions}) + 1,
     id |-> user.id, username |-> user.username, email |-> user.email, role |-> user.role]

\* The end of login and register: the session is stored and both cookies set.
OpenSession(op, user) ==
    /\ Cardinality(sessions) < MaxSessions
    /\ sessions' = sessions \cup {NewSession(user)}
    /\ tokens' = tokens \cup {create_access_token(user)}
    /\ last' = Resp(op, Anonymous, user.id, 302, "/dashboard", <<NewSession(user)>>, NoData)

login(username, password) ==
    /\ LET rows == UsersMatching(username, username)
       IN IF MultipleResultsFound(rows)
          THEN /\ UNCHANGED <<sessions, tokens>>
               /\ last' = Resp("login", Anonymous, NONE, 500, MultipleRows, <<>>, NoData)
          ELSE IF \A u \in rows : ~verify_password(password, u.hashed_password)
          THEN /\ UNCHANGED <<sessions, tokens>>
               /\ last' = Resp("login", Anonymous, NONE, 302, "/login?error=1", <<>>, NoData)
          ELSE OpenSession("login", CHOOSE u \in rows : TRUE)
    /\ UNCHANGED <<users, plans, exercises, now, pending, client>>

register(user_data) ==
    /\ LET rows == UsersMatching(user_data.email, user_data.username)
           new_user == NewUser(user_data)
       IN IF MultipleResultsFound(rows)
          THEN /\ UNCHANGED <<users, sessions, tokens>>
               /\ last' = Resp("register", Anonymous, NONE, 500, MultipleRows, <<>>, user_data)
          ELSE IF rows # {}
          THEN /\ UNCHANGED <<users, sessions, tokens>>
               /\ last' = Resp("register", Anonymous, NONE, 302, "/register?error=1",
                               <<>>, user_data)
          ELSE IF ~UsersIntegrity(users \cup {new_user})
          THEN /\ UNCHANGED <<users, sessions, tokens>>
               /\ last' = Resp("register", Anonymous, NONE, 500, IntegrityError, <<>>, user_data)
          ELSE /\ Cardinality(users) < MaxUsers
               /\ users' = users \cup {new_user}
               /\ OpenSession("register", new_user)
    /\ UNCHANGED <<plans, exercises, now, pending, client>>

\* A logout that also forgot a session of the dict.
LogoutForgets ==
    /\ \E s \in sessions : sessions' = sessions \ {s}
    /\ last' = Resp("logout", Anonymous, NONE, 307, "/", <<>>, NoData)
    /\ UNCHANGED <<users, plans, exercises, tokens, now, pending, client>>

\* logout(): a redirect that deletes the two cookies in the browser.
logout ==
    /\ last' = Resp("logout", Anonymous, NONE, 307, "/", <<>>, NoData)
    /\ UNCHANGED <<users, plans, exercises, tokens, now, pending, sessions, client>>

\* admin_panel(): the page, for a session whose captured role is admin.
admin_panel(token) ==
    /\ last' = IF \E s \in get_current_user_session(token) : s.role = ADMIN
               THEN Resp("admin_panel", Anonymous, NONE, 200, "",
                         <<CHOOSE s \in get_current_user_session(token) : TRUE>>, NoData)
               ELSE Resp("admin_panel", Anonymous, NONE, 307, "/", <<>>, NoData)
    /\ UNCHANGED <<users, plans, exercises, tokens, now, pending, sessions, client>>

SessionNext ==
    \/ register(Alice)
    \/ \E l \in Logins : login(l[1], l[2])
    \/ logout
    \/ \E token \in 1..MaxSessions : admin_panel(token)
    \/ UpdateMe
    \/ AdminChangeRole
    \/ AdminDeleteUser

SessionSpec == Init /\ [][SessionNext]_vars

\* C15: no operation removes or rewrites a sessions entry, and only login
\* and register add one: a session token keeps resolving to the identity
\* captured at login, through logout, role change, profile update and the
\* deletion of its user.
SessionsKept ==
    [][/\ \A s \in sessions : get_current_user_session(s.token)' = {s}
       /\ sessions' # sessions => /\ last'.op \in {"login", "register"}
                                  /\ last'.status = 302]_vars

\* The admin page was just served to the session of a user who logged in as
\* an administrator and whose row has been deleted since.
SessionsKeptWitness ==
    /\ last.op = "admin_panel"
    /\ last.status = 200
    /\ \A u \in users : u.id # last.rows[1].id

-----------------------------------------------------------------------------
(* Roles: both registrations, logins, profile updates of users who own      *)
(* plans, and the administrator's change of a role.                         *)

RoleNext ==
    \/ RegisterAlice
    \/ register(Bob)
    \/ Login
    \/ CreatePlan
    \/ UpdateMe
    \/ AdminChangeRole

RoleSpec == Init /\ [][RoleNext]_vars

\* C16: the stored role of a user changes only in admin_change_user_role,
\* called with a token of role admin for a user other than the token's; a
\* row created by register or api_register has role user; update_current_user
\* changes no id, no role and no plan; so a request whose caller is not an
\* administrator leaves the set of administrators as it was or smaller.
RoleByAdminOnly ==
    [][/\ \A u \in users, v \in users' :
              u.id = v.id /\ u.role # v.role =>
                  /\ last'.op = "admin_change_user_role"
                  /\ last'.role = ADMIN
                  /\ last'.id = u.id
                  /\ last'.user_id # u.id
       /\ \A v \in users' : (\A u \in users : u.id # v.id) =>
              /\ last'.op \in {"register", "api_register"}
              /\ v.role = USER
       /\ last'.op = "update_current_user" =>
              /\ {<<v.id, v.role>> : v \in users'} = {<<u.id, u.role>> : u \in users}
              /\ plans' = plans
       /\ last'.role # ADMIN =>
              {v.id : v \in {x \in users' : x.role = ADMIN}}
                  \subseteq {u.id : u \in {x \in users : x.role = ADMIN}}]_vars

\* A user holding a token of role user, who owns a plan and has been made an
\* administrator since, has just updated the profile; another user registered
\* through the web page.
RoleByAdminOnlyWitness ==
    /\ last.op = "update_current_user"
    /\ last.status = 200
    /\ last.role = USER
    /\ \E u \in users : u.id = last.user_id /\ u.role = ADMIN
    /\ \E p \in plans : p.owner_id = last.user_id
    /\ sessions # {}

=============================================================================
